---- MODULE Spec2Model ----
(***************************************************************************)
(* Model of the ESP32 temperature logger of src/src/main.cpp: setup(),     *)
(* loop() and the pipeline getReadings -> getTimeStamp -> logSDCard ->     *)
(* appendFile, with the SD card file /data.txt as a string of characters.  *)
(*                                                                         *)
(* Strings are sequences of one-character strings.  A float is held in     *)
(* 1/10000 of a degree; String(float) prints it rounded to two decimals.   *)
(* The collaborators (SPIFFS, WiFi, SD, NTP, sensor, the clients of the    *)
(* web socket) answer nondeterministically.                                *)
(***************************************************************************)
EXTENDS Integers, Sequences, FiniteSets, TLC

VARIABLES
    pc,            \* position of the main task in setup()/loop()
    readingID,     \* RTC_DATA_ATTR int readingID
    temperature,   \* float temperature, in 1/10000 of a degree
    formattedDate, \* String formattedDate
    dayStamp,      \* String dayStamp
    timeStamp,     \* String timeStamp
    dataMessage,   \* String dataMessage
    fileExists,    \* /data.txt exists on the card
    fileData,      \* content of /data.txt
    openFiles,     \* open File handles on /data.txt
    setupFile,     \* the File `file` of setup() is valid (open)
    wifi,          \* WiFi.status() == WL_CONNECTED was seen
    sdMounted,     \* an SD.begin of this boot returned true
    wsHandler,     \* initWebSocket() has registered ws
    serial,        \* last Serial line of writeFile/appendFile/setup's file check
    sent,          \* texts handed to ws.textAll in this boot
    aborted,       \* which early return setup() took in this boot
    boots,         \* number of boots so far
    cycles,        \* number of loop() passes started, over all boots
    cycle,         \* number of loop() passes started in this boot
    tsUpdated,     \* timeClient.update() has returned true in this pass
    retries,       \* 1 once forceUpdate() has been called in this pass, else 0
    attempts,      \* fs.open(FILE_APPEND) calls of this pass
    written,       \* bytes the last file.print of appendFile reported
    ntpNow,        \* what timeClient.getFormattedDate() returned in this pass
    ids,           \* ids of the complete data lines appended since the cold boot
    okAppends,     \* complete data lines appended, over all boots
    clients,       \* ids of the clients connected to ws
    events,        \* calls of onEvent
    wholeTexts,    \* whole text messages among the events of this boot
    stages,        \* the stages this pass of loop() has run, in order
    bootKind,      \* "cold" or "wake": how this boot started
    measured       \* values the sensor has returned in this boot

vars == <<pc, readingID, temperature, formattedDate, dayStamp, timeStamp, dataMessage,
          fileExists, fileData, openFiles, setupFile, wifi, sdMounted, wsHandler,
          serial, sent, aborted, boots, cycles, cycle, tsUpdated, retries, attempts,
          written, ntpNow, ids, okAppends, clients, events, wholeTexts, stages,
          bootKind, measured>>

\* ------------------------------------------------------------------ bounds

MaxBoots == 2
MaxCycles == 2
MaxEvents == 2

\* ------------------------------------------------------------- the inputs

\* Answers of sensors.getTempCByIndex(0), in 1/10000 degree: 21.0625 (the
\* probe counts in steps of 0.0625) and the disconnected-probe value -127.
TempSet == {210625, -1270000}

\* The ids a client of ws may have.
Clients == {1}

\* The frame of a whole text message, as the test of line 244 wants it:
\* info->final, info->index, info->len == len, info->opcode.
WholeText == [final |-> TRUE, index |-> 0, whole |-> TRUE, opcode |-> "WS_TEXT"]

\* Frames a WS_EVT_DATA event may bring: a whole text message, a text frame
\* that is not the last, a later part, a part of a longer frame, a binary
\* message.
Frames ==
    {WholeText,
     [final |-> FALSE, index |-> 0, whole |-> TRUE, opcode |-> "WS_TEXT"],
     [final |-> TRUE, index |-> 1, whole |-> TRUE, opcode |-> "WS_TEXT"],
     [final |-> TRUE, index |-> 0, whole |-> FALSE, opcode |-> "WS_TEXT"],
     [final |-> TRUE, index |-> 0, whole |-> TRUE, opcode |-> "WS_BINARY"]}

\* Payloads of a frame.
Payloads == {<<"r", "e", "f", "r", "e", "s", "h">>, <<>>}

\* Answers of timeClient.getFormattedDate().
Time1 ==
    <<"2", "0", "2", "4", "-", "0", "5", "-", "0", "6", "T", "1", "4", ":", "3", "0",
    ":", "0", "0", "Z">>
Time2 ==
    <<"2", "0", "2", "4", "-", "0", "5", "-", "0", "7", "T", "0", "9", ":", "0", "5",
    ":", "1", "0", "Z">>
TimeSet == {Time1, Time2}

\* The header line of setup().
HeaderLine ==
    <<"R", "e", "a", "d", "i", "n", "g", " ", "I", "D", ",", " ", "D", "a", "t", "e",
    ",", " ", "H", "o", "u", "r", ",", " ", "T", "e", "m", "p", "e", "r", "a", "t",
    "u", "r", "e", " ", "\r", "\n">>

\* ------------------------------------------------------ Arduino String

Min(a, b) == IF a < b THEN a ELSE b
Max(a, b) == IF a < b THEN b ELSE a

Digit(d) == <<"0", "1", "2", "3", "4", "5", "6", "7", "8", "9">>[d + 1]

RECURSIVE Dec(_)
Dec(n) == IF n < 10 THEN <<Digit(n)>> ELSE Append(Dec(n \div 10), Digit(n % 10))

\* String(int): decimal, with a minus sign for a negative value.
IntStr(n) == IF n < 0 THEN <<"-">> \o Dec(-n) ELSE Dec(n)

\* String(float): the value rounded to two decimals.  t is the value in
\* 1/10000; h is its magnitude in hundredths, rounded half up.
FloatStr(t) ==
    LET a == IF t < 0 THEN -t ELSE t
        h == (a + 50) \div 100
    IN  (IF t < 0 THEN <<"-">> ELSE <<>>) \o Dec(h \div 100) \o <<".">>
        \o <<Digit((h \div 10) % 10), Digit(h % 10)>>

\* String::indexOf: the 0-based place of the first c, -1 when there is none.
IndexOf(s, c) ==
    IF \E i \in 1..Len(s) : s[i] = c
    THEN (CHOOSE i \in 1..Len(s) : s[i] = c /\ \A j \in 1..(i - 1) : s[j] # c) - 1
    ELSE -1

\* An int passed as unsigned int: a negative value becomes a value above every
\* length (only its order against lengths is used).
AsUnsigned(x) == IF x < 0 THEN 2147483647 ELSE x

\* String::substring(left, right): swaps the ends when left > right, is empty
\* when left is at or past the end, and clips right to the length.
Substring(s, left, right) ==
    LET l  == AsUnsigned(left)
        r  == AsUnsigned(right)
        lo == Min(l, r)
        hi == Max(l, r)
    IN  IF lo >= Len(s) THEN <<>> ELSE SubSeq(s, lo + 1, Min(hi, Len(s)))

\* The first n characters of s: what a print that reports n bytes has stored.
Prefix(s, n) == SubSeq(s, 1, n)

IsPrefix(s, t) == Len(s) <= Len(t) /\ SubSeq(t, 1, Len(s)) = s

\* Byte counts a file.print of len bytes may report: nothing, a short write,
\* everything.
WriteCounts(len) == {0, 1, len}

\* dataMessage of logSDCard.
DataLine(id, day, time, temp) ==
    IntStr(id) \o <<",">> \o day \o <<",">> \o time \o <<",">> \o FloatStr(temp)
    \o <<"\r", "\n">>

\* ------------------------------------------------------------------- boot

\* The per-pass bookkeeping, cleared when a pass of loop() starts and at boot.
PassCleared ==
    /\ tsUpdated' = FALSE
    /\ retries' = 0
    /\ attempts' = 0
    /\ written' = 0
    /\ ntpNow' = <<>>

\* The globals as the startup code leaves them: zero-initialised RAM.
RamCleared ==
    /\ temperature' = 0
    /\ formattedDate' = <<>>
    /\ dayStamp' = <<>>
    /\ timeStamp' = <<>>
    /\ dataMessage' = <<>>
    /\ openFiles' = 0
    /\ setupFile' = FALSE
    /\ wifi' = FALSE
    /\ sdMounted' = FALSE
    /\ wsHandler' = FALSE
    /\ serial' = ""
    /\ sent' = <<>>
    /\ aborted' = "no"
    /\ cycle' = 0
    /\ clients' = {}
    /\ wholeTexts' = 0
    /\ stages' = <<>>
    /\ measured' = {}
    /\ PassCleared

Init ==
    /\ pc = "SPIFFS"
    /\ readingID = 0
    /\ temperature = 0
    /\ formattedDate = <<>>
    /\ dayStamp = <<>>
    /\ timeStamp = <<>>
    /\ dataMessage = <<>>
    /\ fileExists = FALSE
    /\ fileData = <<>>
    /\ openFiles = 0
    /\ setupFile = FALSE
    /\ wifi = FALSE
    /\ sdMounted = FALSE
    /\ wsHandler = FALSE
    /\ serial = ""
    /\ sent = <<>>
    /\ aborted = "no"
    /\ boots = 1
    /\ cycles = 0
    /\ cycle = 0
    /\ tsUpdated = FALSE
    /\ retries = 0
    /\ attempts = 0
    /\ written = 0
    /\ ntpNow = <<>>
    /\ ids = <<>>
    /\ okAppends = 0
    /\ clients = {}
    /\ events = 0
    /\ wholeTexts = 0
    /\ stages = <<>>
    /\ bootKind = "cold"
    /\ measured = {}

\* A reset after full power loss: RTC memory is initialised again, the card
\* keeps /data.txt.
ColdBoot ==
    /\ boots < MaxBoots
    /\ boots' = boots + 1
    /\ pc' = "SPIFFS"
    /\ readingID' = 0
    /\ ids' = <<>>
    /\ bootKind' = "cold"
    /\ RamCleared
    /\ UNCHANGED <<fileExists, fileData, cycles, okAppends,
                   events>>

\* A wake from low-power sleep with readingID in ordinary RAM.
Wake_cleared ==
    /\ boots < MaxBoots
    /\ boots' = boots + 1
    /\ pc' = "SPIFFS"
    /\ bootKind' = "wake"
    /\ readingID' = 0
    /\ RamCleared
    /\ UNCHANGED <<ids, fileExists, fileData, cycles, okAppends,
                   events>>

\* A wake from low-power sleep: RTC memory (readingID) is retained, setup()
\* runs again.
Wake ==
    /\ boots < MaxBoots
    /\ boots' = boots + 1
    /\ pc' = "SPIFFS"
    /\ bootKind' = "wake"
    /\ RamCleared
    /\ UNCHANGED <<readingID, ids, fileExists, fileData, cycles, okAppends,
                   events>>

\* ------------------------------------------------------------------ setup

\* Lines 291-295: SPIFFS.begin(true); setup() returns when it fails.
setup_SPIFFS ==
    /\ pc = "SPIFFS"
    /\ \E fault \in BOOLEAN :
          /\ pc' = IF fault THEN "loop" ELSE "WiFi"
          /\ aborted' = IF fault THEN "SPIFFS" ELSE aborted
    /\ UNCHANGED <<readingID, temperature, formattedDate, dayStamp, timeStamp,
                   dataMessage, fileExists, fileData, openFiles, setupFile, wifi,
                   sdMounted, wsHandler, serial, sent, boots, cycles, cycle,
                   tsUpdated, retries, attempts, written, ntpNow, ids, okAppends,
                   clients, events, wholeTexts, stages, bootKind, measured>>

\* Lines 297-337: WiFi.begin and the wait for WL_CONNECTED, then the routes,
\* server.begin() and timeClient.begin().  While the status is not connected
\* the loop of line 301 goes round (the state does not change).
setup_WiFi ==
    /\ pc = "WiFi"
    /\ \E connected \in BOOLEAN :
          /\ wifi' = connected
          /\ pc' = IF connected THEN "SD" ELSE "WiFi"
    /\ UNCHANGED <<readingID, temperature, formattedDate, dayStamp, timeStamp,
                   dataMessage, fileExists, fileData, openFiles, setupFile,
                   sdMounted, wsHandler, serial, sent, aborted, boots, cycles, cycle,
                   tsUpdated, retries, attempts, written, ntpNow, ids, okAppends,
                   clients, events, wholeTexts, stages, bootKind, measured>>

\* Lines 339-354: SD.begin (result unused), SD.begin, SD.cardType, SD.begin;
\* setup() returns at the first of the three tests that fails.  f1, f2, f3 say
\* whether the card fails to answer at each SD.begin.  SD.begin mounts the
\* card when it answers and returns true at once when it is mounted already;
\* SD.cardType is CARD_NONE exactly when no card is mounted.
setup_SD ==
    /\ pc = "SD"
    /\ \E f1 \in BOOLEAN, f2 \in BOOLEAN, f3 \in BOOLEAN :
          LET begin1   == ~f1
              begin2   == begin1 \/ ~f2
              cardType == IF begin2 THEN "CARD_SD" ELSE "CARD_NONE"
              begin3   == begin2 \/ ~f3
              return   == (~begin2) \/ cardType = "CARD_NONE" \/ ~begin3
          IN  /\ sdMounted' = begin2
              /\ pc' = IF return THEN "loop" ELSE "openFile"
              /\ aborted' = IF return THEN "SD" ELSE aborted
    /\ UNCHANGED <<readingID, temperature, formattedDate, dayStamp, timeStamp,
                   dataMessage, fileExists, fileData, openFiles, setupFile, wifi,
                   wsHandler, serial, sent, boots, cycles, cycle,
                   tsUpdated, retries, attempts, written, ntpNow, ids, okAppends,
                   clients, events, wholeTexts, stages, bootKind, measured>>

\* Line 358: File file = SD.open("/data.txt"), for reading.  It is valid only
\* when the file exists and the card answers; line 359 takes every failure
\* for "File doesn't exist" and calls writeFile.
setup_openFile ==
    /\ pc = "openFile"
    /\ \E fault \in BOOLEAN :
          LET valid == ~fault /\ sdMounted /\ fileExists
          IN  /\ setupFile' = valid
              /\ openFiles' = IF valid THEN openFiles + 1 ELSE openFiles
              /\ serial' = IF valid THEN "File already exists" ELSE "Creating file..."
              /\ pc' = IF valid THEN "closeFile" ELSE "writeFile_open"
    /\ UNCHANGED <<readingID, temperature, formattedDate, dayStamp, timeStamp,
                   dataMessage, fileExists, fileData, wifi, sdMounted, wsHandler,
                   sent, aborted, boots, cycles, cycle, tsUpdated, retries,
                   attempts, written, ntpNow, ids, okAppends,
                   clients, events, wholeTexts, stages, bootKind, measured>>

\* Lines 181-186: fs.open(path, FILE_WRITE) creates the file, or truncates the
\* one there is; on failure writeFile returns.
writeFile_open ==
    /\ pc = "writeFile_open"
    /\ \E fault \in BOOLEAN :
          LET opened == ~fault /\ sdMounted
          IN  /\ fileExists' = (fileExists \/ opened)
              /\ fileData' = IF opened THEN <<>> ELSE fileData
              /\ openFiles' = IF opened THEN openFiles + 1 ELSE openFiles
              /\ serial' = IF opened THEN serial ELSE "Failed to open file for writing"
              /\ pc' = IF opened THEN "writeFile_print" ELSE "closeFile"
    /\ UNCHANGED <<readingID, temperature, formattedDate, dayStamp, timeStamp,
                   dataMessage, setupFile, wifi, sdMounted, wsHandler,
                   sent, aborted, boots, cycles, cycle, tsUpdated, retries,
                   attempts, written, ntpNow, ids, okAppends,
                   clients, events, wholeTexts, stages, bootKind, measured>>

\* writeFile printing the header with a bare line feed at its end.
writeFile_print_lf ==
    /\ pc = "writeFile_print"
    /\ \E n \in WriteCounts(Len(HeaderLine) - 1) :
          /\ fileData' = fileData \o Prefix(SubSeq(HeaderLine, 1, Len(HeaderLine) - 2)
                                             \o <<"\n">>, n)
          /\ serial' = IF n # 0 THEN "File written" ELSE "Write failed"
    /\ pc' = "writeFile_close"
    /\ UNCHANGED <<readingID, temperature, formattedDate, dayStamp, timeStamp,
                   dataMessage, fileExists, openFiles, setupFile, wifi, sdMounted,
                   wsHandler, sent, aborted, boots, cycles, cycle, tsUpdated,
                   retries, attempts, written, ntpNow, ids, okAppends,
                   clients, events, wholeTexts, stages, bootKind, measured>>

\* Lines 187-194: file.print(message) with the header line; any count but 0
\* is taken for success.
writeFile_print ==
    /\ pc = "writeFile_print"
    /\ \E n \in WriteCounts(Len(HeaderLine)) :
          /\ fileData' = fileData \o Prefix(HeaderLine, n)
          /\ serial' = IF n # 0 THEN "File written" ELSE "Write failed"
    /\ pc' = "writeFile_close"
    /\ UNCHANGED <<readingID, temperature, formattedDate, dayStamp, timeStamp,
                   dataMessage, fileExists, openFiles, setupFile, wifi, sdMounted,
                   wsHandler, sent, aborted, boots, cycles, cycle, tsUpdated,
                   retries, attempts, written, ntpNow, ids, okAppends,
                   clients, events, wholeTexts, stages, bootKind, measured>>

\* Line 195: file.close() of writeFile.
writeFile_close ==
    /\ pc = "writeFile_close"
    /\ openFiles' = openFiles - 1
    /\ pc' = "closeFile"
    /\ UNCHANGED <<readingID, temperature, formattedDate, dayStamp, timeStamp,
                   dataMessage, fileExists, fileData, setupFile, wifi, sdMounted,
                   wsHandler, serial, sent, aborted, boots, cycles, cycle,
                   tsUpdated, retries, attempts, written, ntpNow, ids, okAppends,
                   clients, events, wholeTexts, stages, bootKind, measured>>

\* Line 366: file.close() of setup(), on the File of line 358.
setup_closeFile ==
    /\ pc = "closeFile"
    /\ openFiles' = IF setupFile THEN openFiles - 1 ELSE openFiles
    /\ setupFile' = FALSE
    /\ pc' = "finish"
    /\ UNCHANGED <<readingID, temperature, formattedDate, dayStamp, timeStamp,
                   dataMessage, fileExists, fileData, wifi, sdMounted,
                   wsHandler, serial, sent, aborted, boots, cycles, cycle,
                   tsUpdated, retries, attempts, written, ntpNow, ids, okAppends,
                   clients, events, wholeTexts, stages, bootKind, measured>>

\* Lines 368-375: sensors.begin(), initWebSocket(), readingID++.
setup_finish ==
    /\ pc = "finish"
    /\ wsHandler' = TRUE
    /\ readingID' = readingID + 1
    /\ pc' = "loop"
    /\ UNCHANGED <<temperature, formattedDate, dayStamp, timeStamp,
                   dataMessage, fileExists, fileData, openFiles, setupFile, wifi,
                   sdMounted, serial, sent, aborted, boots, cycles, cycle,
                   tsUpdated, retries, attempts, written, ntpNow, ids, okAppends,
                   clients, events, wholeTexts, stages, bootKind, measured>>

\* ------------------------------------------------------------------- loop

\* Lines 377-379 and 114-118: loop() is entered whatever setup() did, and
\* getReadings() reads the sensor into temperature.
getReadings_read ==
    /\ pc = "loop"
    /\ cycles < MaxCycles
    /\ cycles' = cycles + 1
    /\ cycle' = cycle + 1
    /\ \E t \in TempSet :
          /\ temperature' = t
          /\ measured' = measured \cup {t}
    /\ stages' = <<"Sensor Reader">>
    /\ PassCleared
    /\ pc' = "textAll"
    /\ UNCHANGED <<readingID, formattedDate, dayStamp, timeStamp, dataMessage,
                   fileExists, fileData, openFiles, setupFile, wifi, sdMounted,
                   wsHandler, serial, sent, aborted, boots, ids, okAppends,
                   clients, events, wholeTexts, bootKind>>

\* getReadings with the ws.textAll of line 121 left out.
getReadings_textAll_skipped ==
    /\ pc = "textAll"
    /\ sent' = sent
    /\ pc' = "update"
    /\ UNCHANGED <<readingID, temperature, formattedDate, dayStamp, timeStamp,
                   dataMessage, fileExists, fileData, openFiles, setupFile, wifi,
                   sdMounted, wsHandler, serial, aborted, boots, cycles, cycle,
                   tsUpdated, retries, attempts, written, ntpNow, ids, okAppends,
                   clients, events, wholeTexts, stages, bootKind, measured>>

\* getReadings sending the temperature as an integer, String((int)temperature).
getReadings_textAll_truncated ==
    /\ pc = "textAll"
    /\ sent' = Append(sent, [by |-> "getReadings", cycle |-> cycle,
                             to |-> clients,
                             text |-> IntStr(temperature \div 10000)])
    /\ stages' = Append(stages, "Live Notifier")
    /\ pc' = "update"
    /\ UNCHANGED <<readingID, temperature, formattedDate, dayStamp, timeStamp,
                   dataMessage, fileExists, fileData, openFiles, setupFile, wifi,
                   sdMounted, wsHandler, serial, aborted, boots, cycles, cycle,
                   tsUpdated, retries, attempts, written, ntpNow, ids, okAppends,
                   clients, events, wholeTexts, bootKind, measured>>

\* Lines 120-123: ws.textAll(String(temperature)), then getTimeStamp().
getReadings_textAll ==
    /\ pc = "textAll"
    /\ sent' = Append(sent, [by |-> "getReadings", cycle |-> cycle,
                             to |-> clients, text |-> FloatStr(temperature)])
    /\ stages' = Append(stages, "Live Notifier")
    /\ pc' = "update"
    /\ UNCHANGED <<readingID, temperature, formattedDate, dayStamp, timeStamp,
                   dataMessage, fileExists, fileData, openFiles, setupFile, wifi,
                   sdMounted, wsHandler, serial, aborted, boots, cycles, cycle,
                   tsUpdated, retries, attempts, written, ntpNow, ids, okAppends,
                   clients, events, wholeTexts, bootKind, measured>>

\* getTimeStamp with an `if` for the `while` of line 134: one forceUpdate at
\* most, and on to the formatting whatever the update returned.
getTimeStamp_update_once ==
    /\ pc = "update"
    /\ \E fault \in BOOLEAN :
          LET ok == ~fault /\ wifi
          IN  /\ tsUpdated' = ok
              /\ pc' = "format"
    /\ UNCHANGED <<readingID, temperature, formattedDate, dayStamp, timeStamp,
                   dataMessage, fileExists, fileData, openFiles, setupFile, wifi,
                   sdMounted, wsHandler, serial, sent, aborted, boots, cycles, cycle,
                   retries, attempts, written, ntpNow, ids, okAppends,
                   clients, events, wholeTexts, stages, bootKind, measured>>

\* Line 134: while (!timeClient.update()).  The update can succeed only with
\* the network up.
getTimeStamp_update ==
    /\ pc = "update"
    /\ \E fault \in BOOLEAN :
          LET ok == ~fault /\ wifi
          IN  /\ tsUpdated' = ok
              /\ pc' = IF ok THEN "format" ELSE "forceUpdate"
    /\ UNCHANGED <<readingID, temperature, formattedDate, dayStamp, timeStamp,
                   dataMessage, fileExists, fileData, openFiles, setupFile, wifi,
                   sdMounted, wsHandler, serial, sent, aborted, boots, cycles, cycle,
                   retries, attempts, written, ntpNow, ids, okAppends,
                   clients, events, wholeTexts, stages, bootKind, measured>>

\* getTimeStamp giving up after a failed update instead of asking again.
getTimeStamp_forceUpdate_last ==
    /\ pc = "forceUpdate"
    /\ retries' = 1
    /\ pc' = "delay"
    /\ UNCHANGED <<readingID, temperature, formattedDate, dayStamp, timeStamp,
                   dataMessage, fileExists, fileData, openFiles, setupFile, wifi,
                   sdMounted, wsHandler, serial, sent, aborted, boots, cycles, cycle,
                   tsUpdated, attempts, written, ntpNow, ids, okAppends,
                   clients, events, wholeTexts, stages, bootKind, measured>>

\* Line 136: timeClient.forceUpdate(), result unused, and back to line 134.
getTimeStamp_forceUpdate ==
    /\ pc = "forceUpdate"
    /\ retries' = 1
    /\ pc' = "update"
    /\ UNCHANGED <<readingID, temperature, formattedDate, dayStamp, timeStamp,
                   dataMessage, fileExists, fileData, openFiles, setupFile, wifi,
                   sdMounted, wsHandler, serial, sent, aborted, boots, cycles, cycle,
                   tsUpdated, attempts, written, ntpNow, ids, okAppends,
                   clients, events, wholeTexts, stages, bootKind, measured>>

\* getTimeStamp returning without the logSDCard() of line 152.
getTimeStamp_format_unlogged ==
    /\ pc = "format"
    /\ \E now \in TimeSet :
          LET splitT == IndexOf(now, "T")
          IN  /\ ntpNow' = now
              /\ formattedDate' = now
              /\ dayStamp' = Substring(now, 0, splitT)
              /\ timeStamp' = Substring(now, splitT + 1, Len(now) - 1)
    /\ stages' = Append(stages, "Time Resolver")
    /\ pc' = "delay"
    /\ UNCHANGED <<readingID, temperature, dataMessage, fileExists, fileData,
                   openFiles, setupFile, wifi, sdMounted, wsHandler, serial, sent,
                   aborted, boots, cycles, cycle, tsUpdated, retries, attempts,
                   written, ids, okAppends,
                   clients, events, wholeTexts, bootKind, measured>>

\* getTimeStamp taking the time of day up to the end of formattedDate.
getTimeStamp_format_whole ==
    /\ pc = "format"
    /\ \E now \in TimeSet :
          LET splitT == IndexOf(now, "T")
          IN  /\ ntpNow' = now
              /\ formattedDate' = now
              /\ dayStamp' = Substring(now, 0, splitT)
              /\ timeStamp' = Substring(now, splitT + 1, Len(now))
    /\ stages' = Append(stages, "Time Resolver")
    /\ pc' = "logSDCard"
    /\ UNCHANGED <<readingID, temperature, dataMessage, fileExists, fileData,
                   openFiles, setupFile, wifi, sdMounted, wsHandler, serial, sent,
                   aborted, boots, cycles, cycle, tsUpdated, retries, attempts,
                   written, ids, okAppends,
                   clients, events, wholeTexts, bootKind, measured>>

\* Lines 141-152: formattedDate, dayStamp and timeStamp, then logSDCard().
getTimeStamp_format ==
    /\ pc = "format"
    /\ \E now \in TimeSet :
          LET splitT == IndexOf(now, "T")
          IN  /\ ntpNow' = now
              /\ formattedDate' = now
              /\ dayStamp' = Substring(now, 0, splitT)
              /\ timeStamp' = Substring(now, splitT + 1, Len(now) - 1)
    /\ stages' = Append(stages, "Time Resolver")
    /\ pc' = "logSDCard"
    /\ UNCHANGED <<readingID, temperature, dataMessage, fileExists, fileData,
                   openFiles, setupFile, wifi, sdMounted, wsHandler, serial, sent,
                   aborted, boots, cycles, cycle, tsUpdated, retries, attempts,
                   written, ids, okAppends,
                   clients, events, wholeTexts, bootKind, measured>>

\* logSDCard writing 0 in place of the reading of a disconnected probe.
logSDCard_filtered ==
    /\ pc = "logSDCard"
    /\ dataMessage' = DataLine(readingID, dayStamp, timeStamp,
                               IF temperature = -1270000 THEN 0 ELSE temperature)
    /\ pc' = "appendFile_open"
    /\ UNCHANGED <<readingID, temperature, formattedDate, dayStamp, timeStamp,
                   fileExists, fileData, openFiles, setupFile, wifi, sdMounted,
                   wsHandler, serial, sent, aborted, boots, cycles, cycle,
                   tsUpdated, retries, attempts, written, ntpNow, ids, okAppends,
                   clients, events, wholeTexts, stages, bootKind, measured>>

\* Lines 161-167: dataMessage, then appendFile(SD, "/data.txt", ...).
logSDCard ==
    /\ pc = "logSDCard"
    /\ dataMessage' = DataLine(readingID, dayStamp, timeStamp, temperature)
    /\ pc' = "appendFile_open"
    /\ UNCHANGED <<readingID, temperature, formattedDate, dayStamp, timeStamp,
                   fileExists, fileData, openFiles, setupFile, wifi, sdMounted,
                   wsHandler, serial, sent, aborted, boots, cycles, cycle,
                   tsUpdated, retries, attempts, written, ntpNow, ids, okAppends,
                   clients, events, wholeTexts, stages, bootKind, measured>>

\* appendFile opening again when the open failed, instead of returning.
appendFile_open_retrying ==
    /\ pc = "appendFile_open"
    /\ attempts' = attempts + 1
    /\ stages' = Append(stages, "Durable Log Writer")
    /\ \E fault \in BOOLEAN :
          LET opened == ~fault /\ sdMounted
          IN  /\ fileExists' = (fileExists \/ opened)
              /\ openFiles' = IF opened THEN openFiles + 1 ELSE openFiles
              /\ serial' = IF opened THEN serial
                           ELSE "Failed to open file for appending"
              /\ pc' = IF opened THEN "appendFile_print" ELSE "appendFile_open"
    /\ UNCHANGED <<readingID, temperature, formattedDate, dayStamp, timeStamp,
                   dataMessage, fileData, setupFile, wifi, sdMounted, wsHandler,
                   sent, aborted, boots, cycles, cycle, tsUpdated, retries,
                   written, ntpNow, ids, okAppends,
                   clients, events, wholeTexts, bootKind, measured>>

\* Lines 209-214: fs.open(path, FILE_APPEND) creates the file when there is
\* none; on failure appendFile returns.
appendFile_open ==
    /\ pc = "appendFile_open"
    /\ attempts' = attempts + 1
    /\ stages' = Append(stages, "Durable Log Writer")
    /\ \E fault \in BOOLEAN :
          LET opened == ~fault /\ sdMounted
          IN  /\ fileExists' = (fileExists \/ opened)
              /\ openFiles' = IF opened THEN openFiles + 1 ELSE openFiles
              /\ serial' = IF opened THEN serial
                           ELSE "Failed to open file for appending"
              /\ pc' = IF opened THEN "appendFile_print" ELSE "delay"
    /\ UNCHANGED <<readingID, temperature, formattedDate, dayStamp, timeStamp,
                   dataMessage, fileData, setupFile, wifi, sdMounted, wsHandler,
                   sent, aborted, boots, cycles, cycle, tsUpdated, retries,
                   written, ntpNow, ids, okAppends,
                   clients, events, wholeTexts, bootKind, measured>>

\* The id field of a data line: the decimal number before its first comma.
RECURSIVE DecValue(_)
DecValue(s) ==
    IF s = <<>> THEN 0
    ELSE 10 * DecValue(SubSeq(s, 1, Len(s) - 1))
         + (CHOOSE d \in 0..9 : Digit(d) = s[Len(s)])

LineId(line) == DecValue(Substring(line, 0, IndexOf(line, ",")))

\* appendFile returning from a failed print without file.close().
appendFile_print_leaving ==
    /\ pc = "appendFile_print"
    /\ \E n \in WriteCounts(Len(dataMessage)) :
          /\ fileData' = fileData \o Prefix(dataMessage, n)
          /\ written' = n
          /\ serial' = IF n # 0 THEN "Message appended" ELSE "Append failed"
          /\ ids' = IF n = Len(dataMessage) THEN Append(ids, LineId(dataMessage))
                    ELSE ids
          /\ okAppends' = IF n = Len(dataMessage) THEN okAppends + 1 ELSE okAppends
    /\ pc' = IF written' # 0 THEN "appendFile_close" ELSE "delay"
    /\ UNCHANGED <<readingID, temperature, formattedDate, dayStamp, timeStamp,
                   dataMessage, fileExists, openFiles, setupFile, wifi, sdMounted,
                   wsHandler, sent, aborted, boots, cycles, cycle, tsUpdated,
                   retries, attempts, ntpNow,
                   clients, events, wholeTexts, stages, bootKind, measured>>

\* Lines 215-222: file.print(message); any count but 0 is taken for success.
appendFile_print ==
    /\ pc = "appendFile_print"
    /\ \E n \in WriteCounts(Len(dataMessage)) :
          /\ fileData' = fileData \o Prefix(dataMessage, n)
          /\ written' = n
          /\ serial' = IF n # 0 THEN "Message appended" ELSE "Append failed"
          /\ ids' = IF n = Len(dataMessage) THEN Append(ids, LineId(dataMessage))
                    ELSE ids
          /\ okAppends' = IF n = Len(dataMessage) THEN okAppends + 1 ELSE okAppends
    /\ pc' = "appendFile_close"
    /\ UNCHANGED <<readingID, temperature, formattedDate, dayStamp, timeStamp,
                   dataMessage, fileExists, openFiles, setupFile, wifi, sdMounted,
                   wsHandler, sent, aborted, boots, cycles, cycle, tsUpdated,
                   retries, attempts, ntpNow,
                   clients, events, wholeTexts, stages, bootKind, measured>>

\* Line 223: file.close() of appendFile; the calls return up to loop().
appendFile_close ==
    /\ pc = "appendFile_close"
    /\ openFiles' = openFiles - 1
    /\ pc' = "delay"
    /\ UNCHANGED <<readingID, temperature, formattedDate, dayStamp, timeStamp,
                   dataMessage, fileExists, fileData, setupFile, wifi, sdMounted,
                   wsHandler, serial, sent, aborted, boots, cycles, cycle,
                   tsUpdated, retries, attempts, written, ntpNow, ids, okAppends,
                   clients, events, wholeTexts, stages, bootKind, measured>>

\* Line 380: delay(10000); loop() returns and is called again.
loop_delay ==
    /\ pc = "delay"
    /\ pc' = "loop"
    /\ UNCHANGED <<readingID, temperature, formattedDate, dayStamp, timeStamp,
                   dataMessage, fileExists, fileData, openFiles, setupFile, wifi,
                   sdMounted, wsHandler, serial, sent, aborted, boots, cycles, cycle,
                   tsUpdated, retries, attempts, written, ntpNow, ids, okAppends,
                   clients, events, wholeTexts, stages, bootKind, measured>>

\* ------------------------------------------------------------- web socket

\* Lines 231-233: notifyClients() sends String(temperature) to every client.
notifyClients ==
    sent' = Append(sent, [by |-> "notifyClients", cycle |-> cycle,
                          to |-> clients, text |-> FloatStr(temperature)])

\* Lines 242-248: notifyClients() for a whole text message, nothing for any
\* other frame; the payload is not read.
handleWebSocketMessage(info, data) ==
    IF info.final /\ info.index = 0 /\ info.whole /\ info.opcode = "WS_TEXT"
    THEN notifyClients
    ELSE sent' = sent

\* The events the server can deliver now: a connect of a client that is not
\* connected; a disconnect, data, pong or error of one that is.
PossibleEvents ==
    {[type |-> "WS_EVT_CONNECT", client |-> c, info |-> WholeText, data |-> <<>>] :
        c \in Clients \ clients}
    \cup
    {[type |-> t, client |-> c, info |-> WholeText, data |-> <<>>] :
        t \in {"WS_EVT_DISCONNECT", "WS_EVT_PONG", "WS_EVT_ERROR"}, c \in clients}
    \cup
    {[type |-> "WS_EVT_DATA", client |-> c, info |-> f, data |-> d] :
        c \in clients, f \in Frames, d \in Payloads}

\* onEvent counting the events it handles in readingID.
onEvent_counting ==
    /\ wsHandler
    /\ wifi
    /\ events < MaxEvents
    /\ events' = events + 1
    /\ \E e \in PossibleEvents :
          /\ wholeTexts' = IF e.type = "WS_EVT_DATA" /\ e.info = WholeText
                           THEN wholeTexts + 1 ELSE wholeTexts
          /\ clients' = CASE e.type = "WS_EVT_CONNECT" -> clients \cup {e.client}
                           [] e.type = "WS_EVT_DISCONNECT" -> clients \ {e.client}
                           [] OTHER -> clients
          /\ IF e.type = "WS_EVT_DATA"
             THEN handleWebSocketMessage(e.info, e.data)
             ELSE sent' = sent
    /\ readingID' = readingID + 1
    /\ UNCHANGED <<pc, temperature, formattedDate, dayStamp, timeStamp,
                   dataMessage, fileExists, fileData, openFiles, setupFile, wifi,
                   sdMounted, wsHandler, serial, aborted, boots, cycles, cycle,
                   tsUpdated, retries, attempts, written, ntpNow, ids, okAppends,
                   stages, bootKind, measured>>

\* Lines 260-276: onEvent, called by the server's own task once ws is
\* registered (initWebSocket) and the network is up, at any point of the
\* main task.  The server keeps the set of clients.
onEvent ==
    /\ wsHandler
    /\ wifi
    /\ events < MaxEvents
    /\ events' = events + 1
    /\ \E e \in PossibleEvents :
          /\ wholeTexts' = IF e.type = "WS_EVT_DATA" /\ e.info = WholeText
                           THEN wholeTexts + 1 ELSE wholeTexts
          /\ clients' = CASE e.type = "WS_EVT_CONNECT" -> clients \cup {e.client}
                           [] e.type = "WS_EVT_DISCONNECT" -> clients \ {e.client}
                           [] OTHER -> clients
          /\ IF e.type = "WS_EVT_DATA"
             THEN handleWebSocketMessage(e.info, e.data)
             ELSE sent' = sent
    /\ UNCHANGED <<pc, readingID, temperature, formattedDate, dayStamp, timeStamp,
                   dataMessage, fileExists, fileData, openFiles, setupFile, wifi,
                   sdMounted, wsHandler, serial, aborted, boots, cycles, cycle,
                   tsUpdated, retries, attempts, written, ntpNow, ids, okAppends,
                   stages, bootKind, measured>>

\* ---------------------------------------------------------- specification

Next ==
    \/ ColdBoot
    \/ Wake
    \/ setup_SPIFFS
    \/ setup_WiFi
    \/ setup_SD
    \/ setup_openFile
    \/ writeFile_open
    \/ writeFile_print
    \/ writeFile_close
    \/ setup_closeFile
    \/ setup_finish
    \/ getReadings_read
    \/ getReadings_textAll
    \/ getTimeStamp_update
    \/ getTimeStamp_forceUpdate
    \/ getTimeStamp_format
    \/ logSDCard
    \/ appendFile_open
    \/ appendFile_print
    \/ appendFile_close
    \/ loop_delay

\* The main task alone, over resets: setup() and loop().
Spec == Init /\ [][Next]_vars

\* Lines 286-383 with 260-276: one boot of the main task together with the
\* server's task, which may call onEvent between any two steps of it.
NextEvents ==
    \/ setup_SPIFFS
    \/ setup_WiFi
    \/ setup_SD
    \/ setup_openFile
    \/ writeFile_open
    \/ writeFile_print
    \/ writeFile_close
    \/ setup_closeFile
    \/ setup_finish
    \/ getReadings_read
    \/ getReadings_textAll
    \/ getTimeStamp_update
    \/ getTimeStamp_forceUpdate
    \/ getTimeStamp_format
    \/ logSDCard
    \/ appendFile_open
    \/ appendFile_print
    \/ appendFile_close
    \/ loop_delay
    \/ onEvent

SpecEvents == Init /\ [][NextEvents]_vars

\* The main task alone in one boot: setup() and then loop() for ever.  The
\* task is never starved, so it takes its next step whenever it has one.
NextMain ==
    \/ setup_SPIFFS
    \/ setup_WiFi
    \/ setup_SD
    \/ setup_openFile
    \/ writeFile_open
    \/ writeFile_print
    \/ writeFile_close
    \/ setup_closeFile
    \/ setup_finish
    \/ getReadings_read
    \/ getReadings_textAll
    \/ getTimeStamp_update
    \/ getTimeStamp_forceUpdate
    \/ getTimeStamp_format
    \/ logSDCard
    \/ appendFile_open
    \/ appendFile_print
    \/ appendFile_close
    \/ loop_delay

SpecMain == Init /\ [][NextMain]_vars /\ WF_vars(NextMain)


\* ----------------------------------------------------------------- claims

AppendPcs == {"appendFile_open", "appendFile_print", "appendFile_close"}
RetryPcs == {"update", "forceUpdate"}

\* The broadcasts getReadings has made in the current pass of loop().
CycleBroadcasts ==
    {i \in DOMAIN sent : sent[i].by = "getReadings" /\ sent[i].cycle = cycle}

\* The last n characters of s.
Suffix(s, n) == SubSeq(s, Len(s) - n + 1, Len(s))

\* The number of CRLF pairs in s: the complete lines of a file.
CountCRLF(s) == Cardinality({i \in 1..(Len(s) - 1) : s[i] = "\r" /\ s[i + 1] = "\n"})

\* C1: a data line is appended only after timeClient.update() has succeeded in
\* the same pass: no append is attempted while getTimeStamp is in its retry
\* loop; when appendFile runs, the update of this pass has succeeded, the
\* day and time stamps are the two parts of the time resolved in this pass,
\* the message carries them, and what is appended is taken from that message.
C1_AppendOnlyAfterTimestamp ==
    /\ pc \in RetryPcs => attempts = 0
    /\ (pc \in AppendPcs \/ attempts > 0) =>
          /\ tsUpdated
          /\ ntpNow \in TimeSet
          /\ dayStamp \o <<"T">> \o timeStamp \o <<"Z">> = ntpNow
          /\ dataMessage = IntStr(readingID) \o <<",">> \o dayStamp \o <<",">>
                           \o timeStamp \o <<",">> \o FloatStr(temperature)
                           \o <<"\r", "\n">>
    /\ pc = "appendFile_close" =>
          /\ written <= Len(fileData)
          /\ Suffix(fileData, written) = Prefix(dataMessage, written)

\* C1 witness: a whole line has been appended in a pass whose first updates
\* failed.
C1_Witness ==
    /\ pc = "appendFile_close"
    /\ written = Len(dataMessage)
    /\ retries > 0
    /\ Suffix(fileData, written) = dataMessage

C3_IdsStrictlyIncrease ==
    \A i \in DOMAIN ids : \A j \in DOMAIN ids : i < j => ids[i] < ids[j]

\* C4: the first reading after a cold boot is logged with id 0.
C4_FirstIdIsZero ==
    (boots = 1 /\ cycle = 1 /\ pc \in AppendPcs) => LineId(dataMessage) = 0

\* C5: once appends have succeeded, at the end of a pass the file is the
\* header line followed by as many complete lines as appends succeeded.
C5_HeaderThenLines ==
    (pc = "delay" /\ okAppends > 0) =>
        /\ fileExists
        /\ IsPrefix(HeaderLine, fileData)
        /\ CountCRLF(fileData) = 1 + okAppends

\* The complete lines of s: s up to its last CRLF.
CompleteLines(s) ==
    LET ends == {i \in 2..Len(s) : s[i - 1] = "\r" /\ s[i] = "\n"}
    IN  IF ends = {} THEN <<>>
        ELSE SubSeq(s, 1, CHOOSE i \in ends : \A j \in ends : j <= i)

\* C6: the file is append-only: no step removes the file, and the lines it
\* holds are still there, unchanged, after every step.
C6_AppendOnly ==
    [][/\ fileExists => fileExists'
       /\ IsPrefix(CompleteLines(fileData), fileData')]_vars

\* C7: after setup() has returned early on a mount failure nothing of the
\* pipeline runs in that boot: no pass of loop() starts, nothing is sent.
C7_NoPipelineAfterAbort ==
    aborted # "no" => (pc = "loop" /\ cycle = 0 /\ sent = <<>>)

\* C8: in every pass in which the time is resolved the temperature of the
\* pass has been broadcast, whether the append succeeds or fails.
C8_BroadcastDespiteAppendFailure ==
    (tsUpdated /\ pc \in AppendPcs \cup {"delay"}) =>
        \E i \in CycleBroadcasts : sent[i].text = FloatStr(temperature)

\* C8 witness: a pass ends with the time resolved, the append failed (open or
\* write) and the temperature broadcast.
C8_Witness ==
    /\ pc = "delay"
    /\ tsUpdated
    /\ serial \in {"Failed to open file for appending", "Append failed"}
    /\ \E i \in CycleBroadcasts : sent[i].text = FloatStr(temperature)

\* C9: a storage fault stays in its pass: a pass opens the file for appending
\* once at most, and exactly once when it has reached the delay; a failed
\* open changes nothing of the file and goes to the delay; and from the
\* delay the only step of the program is the next call of loop().
C9_FaultLocalToCycle ==
    [][/\ attempts' <= 1
       /\ (pc' = "delay" => attempts' = 1)
       /\ (pc = "appendFile_open" /\ boots' = boots /\ pc' # "appendFile_print") =>
             (pc' = "delay" /\ fileData' = fileData /\ fileExists' = fileExists)
       /\ (pc = "appendFile_print" /\ boots' = boots /\ written' = 0) =>
             fileData' = fileData
       /\ (pc = "delay" /\ boots' = boots) => pc' = "loop"]_vars

\* C9 witness: the pass after one whose append could not open the file is
\* running.
C9_Witness ==
    /\ pc = "textAll"
    /\ cycle = 2
    /\ attempts = 0
    /\ serial = "Failed to open file for appending"

\* C10: appendFile reports a failure when the file cannot be opened and when
\* the print stores less than the whole message.
C10_ShortWriteReported ==
    [][/\ (pc = "appendFile_open" /\ pc' = "delay") =>
             serial' = "Failed to open file for appending"
       /\ (pc = "appendFile_print" /\ pc' = "appendFile_close"
           /\ written' < Len(dataMessage)) =>
             serial' = "Append failed"]_vars

\* ------------------------------------------------------------------- C11

\* C11: each inbound whole text message (final, index 0, frame length equal
\* to the data length, text opcode) is answered by exactly one broadcast to
\* all connected clients that carries the value of the most recent sensor
\* read, whatever its payload and wherever the main task stands; no other
\* event is answered by a broadcast.
C11_EchoOfLastReading ==
    [][events' # events =>
          IF wholeTexts' # wholeTexts
          THEN /\ measured # {}
               /\ temperature \in measured
               /\ sent' = Append(sent, [by |-> "notifyClients", cycle |-> cycle,
                                        to |-> clients,
                                        text |-> FloatStr(temperature)])
          ELSE sent' = sent]_vars

\* ------------------------------------------------------------------- C12

\* The stage order the description gives, and the order of getReadings
\* (lines 114-123), getTimeStamp (line 152) and logSDCard (line 167).
ClaimedOrder ==
    <<"Sensor Reader", "Time Resolver", "Durable Log Writer", "Live Notifier">>
CodeOrder ==
    <<"Sensor Reader", "Live Notifier", "Time Resolver", "Durable Log Writer">>

RunningPcs ==
    {"textAll", "update", "forceUpdate", "format", "logSDCard"} \cup AppendPcs

\* In every cycle the time source eventually answers.
TimeSourceAnswers == [](pc \in RetryPcs => <>(pc = "format"))

\* C13: the loop has no terminal state and only getTimeStamp can hold it up.
\* If in every cycle the time source eventually answers, every started cycle
\* reaches the delay, with the append done or failed, and the delay is
\* followed by the next cycle; while the time source fails, the cycle stays
\* in the retry loop of getTimeStamp and does not reach the delay.
C13_OnlyTimeSourceStalls ==
    /\ TimeSourceAnswers => [](pc \in RunningPcs => <>(pc = "delay"))
    /\ [](pc = "delay" => <>(pc = "loop"))
    /\ []((pc = "loop" /\ cycles < MaxCycles) => <>(pc = "textAll"))
    /\ [](pc = "forceUpdate" => <>(pc = "update"))
    /\ [][(pc \in RetryPcs /\ pc' \notin RetryPcs) =>
              (tsUpdated' /\ pc' = "format")]_vars

C13_Witness ==
    /\ pc = "delay"
    /\ cycles = 2
    /\ retries = 1
    /\ tsUpdated
    /\ serial = "Append failed"

\* ------------------------------------------------------------------- C14

\* The number a text of String(float) denotes, in 1/10000.
FloatValue(s) ==
    LET neg  == s # <<>> /\ s[1] = "-"
        body == IF neg THEN SubSeq(s, 2, Len(s)) ELSE s
        dot  == IndexOf(body, ".")
        int  == DecValue(SubSeq(body, 1, dot))
        frac == DecValue(SubSeq(body, dot + 2, Len(body)))
        v    == int * 10000 + frac * 100
    IN  IF neg THEN -v ELSE v

\* The temperature field of a data line: the text between its last comma
\* and its CRLF.
LineTemperature(line) ==
    LET commas == {i \in DOMAIN line : line[i] = ","}
        last   == CHOOSE i \in commas : \A j \in commas : j <= i
    IN  SubSeq(line, last + 1, Len(line) - 2)

\* The positions of a pass at which the data line of the pass is built.
LinePcs == AppendPcs \cup {"delay"}

\* The positions of a pass at which its broadcast is made.
SentPcs == {"update", "forceUpdate", "format", "logSDCard"} \cup LinePcs

\* C14 as stated, for a boot whose setup() ran to its end: the broadcast of a
\* cycle and the data line of a cycle carry exactly the value the sensor
\* returned in the cycle.
C14_ExactValue ==
    aborted = "no" =>
        /\ pc \in SentPcs =>
              \A i \in CycleBroadcasts : FloatValue(sent[i].text) = temperature
        /\ (pc \in LinePcs /\ attempts >= 1) =>
              FloatValue(LineTemperature(dataMessage)) = temperature

\* C14 amended: the broadcast of a cycle and the data line of a cycle carry
\* the value the sensor returned in the cycle as String(float) prints it,
\* rounded to two decimals; the value is changed by the sensor read alone,
\* and the reading of a disconnected probe is broadcast and appended like any
\* other.
C14_PrintedValue ==
    /\ [](pc \in SentPcs =>
            /\ temperature \in TempSet
            /\ CycleBroadcasts # {}
            /\ \A i \in CycleBroadcasts : sent[i].text = FloatStr(temperature))
    /\ []((pc \in LinePcs /\ attempts >= 1) =>
            LineTemperature(dataMessage) = FloatStr(temperature))
    /\ []((pc = "appendFile_close" /\ written = Len(dataMessage)) =>
            LineTemperature(Suffix(fileData, written)) = FloatStr(temperature))
    /\ [][(temperature' # temperature /\ boots' = boots) =>
             (pc = "loop" /\ pc' = "textAll")]_vars

C14_Witness ==
    /\ pc = "delay"
    /\ temperature = -1270000
    /\ serial = "Message appended"
    /\ written = Len(dataMessage)
    /\ Suffix(fileData, 9) = <<"-", "1", "2", "7", ".", "0", "0", "\r", "\n">>
    /\ \E i \in CycleBroadcasts : sent[i].text = <<"-", "1", "2", "7", ".", "0", "0">>

\* ------------------------------------------------------------------- C15

\* The text `Reading ID, Date, Hour, Temperature`.
HeaderText ==
    <<"R", "e", "a", "d", "i", "n", "g", " ", "I", "D", ",", " ",
      "D", "a", "t", "e", ",", " ", "H", "o", "u", "r", ",", " ",
      "T", "e", "m", "p", "e", "r", "a", "t", "u", "r", "e">>

\* writeFile has written the whole header to the file it created.
HeaderWritten == pc = "writeFile_close" /\ Len(fileData) > 1

\* C15 as stated: the header line of a created log file is the text
\* `Reading ID, Date, Hour, Temperature` immediately followed by CRLF.
C15_HeaderThenCRLF ==
    HeaderWritten => fileData = HeaderText \o <<"\r", "\n">>

\* C15 amended: the header line of a created log file is the text
\* `Reading ID, Date, Hour, Temperature`, one space, and CRLF.
C15_HeaderSpaceCRLF ==
    HeaderWritten => fileData = HeaderText \o <<" ", "\r", "\n">>

C15_Witness ==
    /\ HeaderWritten
    /\ serial = "File written"
    /\ Len(fileData) = 38
    /\ fileData[36] = " "

\* ------------------------------------------------------------------- C16

\* C16: readingID never decreases over the passes of loop() and the wakes
\* from low-power sleep of a power session; a wake leaves it as it was, and
\* the only step that lowers it is a cold boot, which sets it to 0.
C16_CounterKeptAcrossWakes ==
    /\ [][readingID' < readingID =>
             (boots' = boots + 1 /\ bootKind' = "cold" /\ readingID' = 0)]_vars
    /\ [][(boots' # boots /\ bootKind' = "wake") => readingID' = readingID]_vars
    /\ [][(boots' = boots /\ pc \notin {"finish"}) => readingID' = readingID]_vars

C16_Witness ==
    /\ bootKind = "wake"
    /\ pc = "delay"
    /\ readingID = 2
    /\ cycles = 2

\* ------------------------------------------------------------------- C17

\* The positions inside writeFile, appendFile and the existence check of
\* setup() at which a handle on the log file can be open.
HandlePcs ==
    {"writeFile_print", "writeFile_close", "closeFile",
     "appendFile_print", "appendFile_close"}

\* C17: a handle on the log file is open only inside the function that
\* opened it.  At most one handle is open at a time; appendFile, writeFile
\* and the existence check of setup() end with all handles closed, after a
\* good and after a failed write; at every other position of setup() and
\* loop(), the delay included, the file is closed.
C17_FileClosedOutsideStage ==
    /\ [](openFiles \in {0, 1})
    /\ [](setupFile => (openFiles = 1 /\ pc = "closeFile"))
    /\ [](pc \notin HandlePcs => openFiles = 0)
    /\ [][(pc \in {"appendFile_close", "writeFile_close", "closeFile"}
             /\ pc' # pc) => openFiles' = 0]_vars

C17_Witness ==
    /\ pc = "delay"
    /\ attempts = 1
    /\ serial = "Append failed"
    /\ fileExists
    /\ openFiles = 0

\* ------------------------------------------------------------------- C18

\* The place of the separator T in a timestamp <date>T<time>Z.
SeparatorOf(stamp) ==
    CHOOSE i \in DOMAIN stamp :
        stamp[i] = "T" /\ \A j \in 1..(i - 1) : stamp[j] # "T"

\* The positions of a pass after getTimeStamp has split formattedDate.
SplitPcs == {"logSDCard", "delay"} \cup AppendPcs

\* C18: of a timestamp <date>T<time>Z the resolver keeps the text before the
\* T as the date and the text after the T without its last character as the
\* time (2024-05-06T14:30:00Z gives 2024-05-06 and 14:30:00), and the line
\* appended is <id>,<date>,<time>,<temperature> and CRLF.
C18_FieldsOfTimestamp ==
    /\ pc \in SplitPcs =>
          /\ formattedDate \in TimeSet
          /\ dayStamp = SubSeq(formattedDate, 1, SeparatorOf(formattedDate) - 1)
          /\ timeStamp = SubSeq(formattedDate, SeparatorOf(formattedDate) + 1,
                                Len(formattedDate) - 1)
          /\ formattedDate = Time1 =>
                /\ dayStamp = <<"2", "0", "2", "4", "-", "0", "5", "-", "0", "6">>
                /\ timeStamp = <<"1", "4", ":", "3", "0", ":", "0", "0">>
    /\ (pc = "appendFile_close" /\ written = Len(dataMessage)) =>
          Suffix(fileData, written) =
              IntStr(readingID) \o <<",">>
              \o SubSeq(formattedDate, 1, SeparatorOf(formattedDate) - 1) \o <<",">>
              \o SubSeq(formattedDate, SeparatorOf(formattedDate) + 1,
                        Len(formattedDate) - 1) \o <<",">>
              \o FloatStr(temperature) \o <<"\r", "\n">>

C18_Witness ==
    /\ pc = "appendFile_close"
    /\ written = Len(dataMessage)
    /\ formattedDate = Time1
    /\ readingID = 1
    /\ temperature = 210625
    /\ Suffix(fileData, 29) =
          <<"1", ",", "2", "0", "2", "4", "-", "0", "5", "-", "0", "6", ",",
            "1", "4", ":", "3", "0", ":", "0", "0", ",", "2", "1", ".", "0", "6",
            "\r", "\n">>

\* ------------------------------------------------------------------- C19

\* C19: handling a connect, disconnect, data, pong or error event, wherever
\* the main task stands, leaves readingID, temperature, formattedDate,
\* dayStamp, timeStamp, dataMessage, the log file and the position of the
\* main task as they were; readingID and temperature are changed by steps of
\* the main task alone.
C19_EventsLeavePipelineState ==
    /\ [][events' # events =>
             /\ readingID' = readingID
             /\ temperature' = temperature
             /\ formattedDate' = formattedDate
             /\ dayStamp' = dayStamp
             /\ timeStamp' = timeStamp
             /\ dataMessage' = dataMessage
             /\ fileExists' = fileExists
             /\ fileData' = fileData
             /\ openFiles' = openFiles
             /\ pc' = pc]_vars
    /\ [][(readingID' # readingID \/ temperature' # temperature) =>
             (events' = events /\ pc' # pc)]_vars

C19_Witness ==
    /\ pc = "appendFile_close"
    /\ written = Len(dataMessage)
    /\ events = 2
    /\ wholeTexts = 1
    /\ clients = {1}
    /\ Len(sent) = 2
    /\ sent[2].by = "notifyClients"
    /\ sent[2].cycle = 1
    /\ readingID = 1

\* ------------------------------------------------------------------- C20

\* C20: every text broadcast to the clients, by getReadings or in answer to
\* an inbound message, is the text of a value the sensor has returned
\* earlier in the current boot.
C20_OnlyMeasuredValuesSent ==
    \A i \in DOMAIN sent : \E t \in measured : sent[i].text = FloatStr(t)

====
